---- MODULE Spec2Model ----
(***************************************************************************)
(* Model of src/win32-dlfcn.cc: the emulation of POSIX dlopen / dlclose /  *)
(* dlsym / dlerror on top of the Win32 loader.                              *)
(*                                                                         *)
(* C strings are sequences of one-character strings (the bytes before the  *)
(* terminating NUL).  The Win32 calls the file makes (MultiByteToWideChar, *)
(* LoadLibraryW, FreeLibrary, GetProcAddress, Get/SetErrorMode) are        *)
(* modelled by their effect on the loader's reference counts and on the    *)
(* process error mode; their failures are nondeterministic choices.        *)
(***************************************************************************)
EXTENDS Integers, Sequences, FiniteSets, TLC

(* ------------------------------ bounds -------------------------------- *)

\* longest symbol string enumerated over Alphabet
MaxLen == 3

\* largest reference count the loader reaches for the library
MaxRef == 1

(* --------------------------- program constants ------------------------ *)

UINT16_MAX == 65535

SEM_FAILCRITICALERRORS == 1

ERROR_OUTOFMEMORY == 14

\* error codes the Win32 calls leave in GetLastError() when they fail
ConvErrors == {ERROR_OUTOFMEMORY}
LoadErrors == {126}
FreeErrors == {6}
ProcErrors == {127}

(* ------------------------------ characters ---------------------------- *)

DigitChars == <<"0", "1", "2", "3", "4", "5", "6", "7", "8", "9">>

IsDigit(c) == \E d \in 1..10 : DigitChars[d] = c

DigitVal(c) == (CHOOSE d \in 1..10 : DigitChars[d] = c) - 1

\* isspace() in the C locale
IsSpace(c) == c \in {" ", "\t", "\n", "\r", "\f"}

(* ---------------------- decimal numbers as digit lists ---------------- *)

\* the decimal digits of n, most significant first (what %lu prints)
RECURSIVE Dec(_)
Dec(n) == IF n < 10 THEN <<n>> ELSE Append(Dec(n \div 10), n % 10)

RECURSIVE StripZeros(_)
StripZeros(d) ==
    IF d # <<>> /\ Head(d) = 0 THEN StripZeros(Tail(d)) ELSE d

\* the number a (short) digit list denotes
RECURSIVE MagVal(_)
MagVal(d) ==
    IF d = <<>> THEN 0 ELSE 10 * MagVal(SubSeq(d, 1, Len(d) - 1)) + d[Len(d)]

RECURSIVE LexCmp(_, _)
LexCmp(a, b) ==
    IF a = <<>> THEN 0
    ELSE IF Head(a) < Head(b) THEN -1
    ELSE IF Head(a) > Head(b) THEN 1
    ELSE LexCmp(Tail(a), Tail(b))

\* compare two magnitudes given as digit lists without leading zeros
MagCmp(a, b) ==
    IF Len(a) < Len(b) THEN -1
    ELSE IF Len(a) > Len(b) THEN 1
    ELSE LexCmp(a, b)

\* INTMAX_MAX = 2^63 - 1 and |INTMAX_MIN| = 2^63 for a 64-bit intmax_t
IntMaxMag == <<9,2,2,3,3,7,2,0,3,6,8,5,4,7,7,5,8,0,7>>
IntMinMag == <<9,2,2,3,3,7,2,0,3,6,8,5,4,7,7,5,8,0,8>>

(* ------------------------------ strtoimax ----------------------------- *)

RECURSIVE SkipSpace(_, _)
SkipSpace(s, i) ==
    IF i <= Len(s) /\ IsSpace(s[i]) THEN SkipSpace(s, i + 1) ELSE i

RECURSIVE ScanDigits(_, _)
ScanDigits(s, i) ==
    IF i <= Len(s) /\ IsDigit(s[i]) THEN ScanDigits(s, i + 1) ELSE i

\* strtoimax(str, &end, 10): end is the index of the first character not
\* consumed (1 = str itself, Len+1 = the terminating NUL); the value is
\* sign and magnitude; erange is errno == ERANGE afterwards.
strtoimax(s) ==
    LET i == SkipSpace(s, 1)
        signed == i <= Len(s) /\ s[i] \in {"+", "-"}
        neg == signed /\ s[i] = "-"
        j == IF signed THEN i + 1 ELSE i
        k == ScanDigits(s, j)
        mag == StripZeros([n \in 1..(k - j) |-> DigitVal(s[j + n - 1])])
        limit == IF neg THEN IntMinMag ELSE IntMaxMag
        over == MagCmp(mag, limit) > 0
    IN  IF k = j
        THEN [end |-> 1, neg |-> FALSE, mag |-> <<>>, erange |-> FALSE]
        ELSE [end |-> k, neg |-> neg, mag |-> IF over THEN limit ELSE mag,
              erange |-> over]

\* str_to_uint16 with the range test written val >= UINT16_MAX
str_to_uint16_offbyone(s) ==
    LET r == strtoimax(s)
    IN  IF \/ r.erange
           \/ r.neg /\ r.mag # <<>>
           \/ ~r.neg /\ MagCmp(r.mag, Dec(UINT16_MAX)) >= 0
           \/ r.end = 1
           \/ r.end <= Len(s)
        THEN [ok |-> FALSE, res |-> 0]
        ELSE [ok |-> TRUE, res |-> MagVal(r.mag)]

\* str_to_uint16(str, &res): ok is the bool returned, res the value stored
str_to_uint16(s) ==
    LET r == strtoimax(s)
    IN  IF \/ r.erange
           \/ r.neg /\ r.mag # <<>>
           \/ ~r.neg /\ MagCmp(r.mag, Dec(UINT16_MAX)) > 0
           \/ r.end = 1
           \/ r.end <= Len(s)
        THEN [ok |-> FALSE, res |-> 0]
        ELSE [ok |-> TRUE, res |-> MagVal(r.mag)]

(* ------------------------------ the loader ---------------------------- *)

Threads == {"t1", "t2"}

NULL == "NULL"

\* GetModuleHandle(NULL), the handle of the running executable
MainImage == "main"

\* the handle LoadLibraryW returns for LibPath
Lib == "lib"

Handles == {MainImage, Lib}

LibPath == "lib.dll"
MissingPath == "missing.dll"

\* the file arguments of dlopen
Files == {NULL, LibPath, MissingPath}

\* export tables: names and ordinals each module exports
ExportNames(h) == IF h = MainImage THEN {<<"a">>} ELSE {<<"a">>, <<"7">>}
ExportOrdinals(h) == IF h = MainImage THEN {7} ELSE {1, 7}

Alphabet == {" ", "+", "-", "0", "7", "a"}

Strings(n) == UNION {[1..k -> Alphabet] : k \in 0..n}

SpecialSyms ==
    { <<"6","5","5","3","5">>, <<"6","5","5","3","6">>,
      <<"0","0","0","0","0","0","7">>, <<" ","1","2">>, <<"1","2","a">>,
      <<"1","2"," ">>, <<"\t","7">>,
      <<"9","2","2","3","3","7","2","0","3","6","8","5","4","7","7","5","8","0","7">>,
      <<"9","2","2","3","3","7","2","0","3","6","8","5","4","7","7","5","8","0","8">>,
      <<"-","9","2","2","3","3","7","2","0","3","6","8","5","4","7","7","5","8","0","9">> }

\* symbol strings of the symbol-resolution specification
SymStrings == Strings(MaxLen) \cup SpecialSyms

\* symbol strings of the single-caller specification
SymNames == {<<"7">>, <<"a">>, <<" ", "7">>}

\* symbol strings of the threaded specification
ThreadSyms == {<<"7">>}

\* errorMode | SEM_FAILCRITICALERRORS on unsigned integers
RECURSIVE BitOr(_, _)
BitOr(a, b) ==
    IF a = 0 THEN b
    ELSE IF b = 0 THEN a
    ELSE (IF a % 2 = 1 \/ b % 2 = 1 THEN 1 ELSE 0)
         + 2 * BitOr(a \div 2, b \div 2)

\* sprintf(errorMessage, "Win32 error %lu", code)
Prefix == <<"W","i","n","3","2"," ","e","r","r","o","r"," ">>
Sprintf(code) ==
    Prefix \o [i \in 1..Len(Dec(code)) |-> DigitChars[Dec(code)[i] + 1]]

(* ------------------------------- state -------------------------------- *)

VARIABLES
    lastError,          \* static DWORD lastError
    errorMessage,       \* static char errorMessage[64] of dlerror
    processErrorMode,   \* the process error mode Get/SetErrorMode act on
    refs,               \* the loader's reference count of each module
    pc,                 \* where each thread is inside the shim
    arg,                \* the arguments of the call a thread is in
    errorMode,          \* dlopen's local errorMode
    handle,             \* dlopen's local handle
    seen,               \* the lastError dlerror's test read
    ret,                \* what a thread's latest call returned
    lookup,             \* the GetProcAddress call of a thread's latest dlsym
    entryMode,          \* the process error mode when a dlopen call began
    mode0,              \* the process error mode before any call
    writer,             \* the failing operation that wrote lastError last
    quiet               \* no other thread wrote lastError during a dlerror

vars == <<lastError, errorMessage, processErrorMode, refs, pc, arg, errorMode,
          handle, seen, ret, lookup, entryMode, mode0, writer, quiet>>

NoArg == [h |-> "none", name |-> <<>>]
NoRet == [op |-> "none", ptr |-> "none", rc |-> 0]
NoLookup == [sym |-> <<>>, kind |-> "none", ordinal |-> 0, name |-> <<>>]
NoWriter == [t |-> "none", code |-> 0, over |-> FALSE]

PtrRet(op, p) == [op |-> op, ptr |-> p, rc |-> 0]
\* dlclose: ptr is the handle that was closed, rc the status returned
RcRet(h, r) == [op |-> "dlclose", ptr |-> h, rc |-> r]

\* SEM_FAILCRITICALERRORS clear, SEM_NOGPFAULTERRORBOX clear or set
InitModes == {0, 2}

Init ==
    /\ lastError = 0
    /\ errorMessage = <<>>
    /\ processErrorMode \in InitModes
    /\ mode0 = processErrorMode
    /\ refs = [h \in Handles |-> IF h = MainImage THEN 1 ELSE 0]
    /\ pc = [t \in Threads |-> "idle"]
    /\ arg = [t \in Threads |-> NoArg]
    /\ errorMode = [t \in Threads |-> 0]
    /\ handle = [t \in Threads |-> NULL]
    /\ seen = [t \in Threads |-> 0]
    /\ ret = [t \in Threads |-> NoRet]
    /\ lookup = [t \in Threads |-> NoLookup]
    /\ entryMode = [t \in Threads |-> 0]
    /\ writer = NoWriter
    /\ quiet = [t \in Threads |-> TRUE]

\* thread t writes lastError: every other thread inside dlerror is disturbed
Disturb(t) ==
    [u \in Threads |-> IF u # t /\ pc[u] \in {"format", "reset"}
                       THEN FALSE ELSE quiet[u]]

\* an earlier pending error is kept
RecordFirstOnly(t, code) ==
    /\ lastError' = IF lastError = 0 THEN code ELSE lastError
    /\ writer' = [t |-> t, code |-> code, over |-> lastError # 0]
    /\ quiet' = Disturb(t)

\* the failure is not recorded at all
RecordNothing(t, code) ==
    UNCHANGED <<lastError, writer, quiet>>

\* lastError = GetLastError() after a failed Win32 call of thread t
RecordError(t, code) ==
    /\ lastError' = code
    /\ writer' = [t |-> t, code |-> code, over |-> lastError # 0]
    /\ quiet' = Disturb(t)

Return(t, r) ==
    /\ pc' = [pc EXCEPT ![t] = "idle"]
    /\ arg' = [arg EXCEPT ![t] = NoArg]
    /\ ret' = [ret EXCEPT ![t] = r]

Call(t, label, a) ==
    /\ pc[t] = "idle"
    /\ pc' = [pc EXCEPT ![t] = label]
    /\ arg' = [arg EXCEPT ![t] = a]
    /\ ret' = [ret EXCEPT ![t] = NoRet]
    /\ lookup' = [lookup EXCEPT ![t] = NoLookup]

(* ----------------------------- Win32 calls ---------------------------- *)

\* UTF8toWCHAR(file): the conversion succeeds, or MultiByteToWideChar or
\* malloc fails and leaves an error code
UTF8toWCHAR(file) ==
    {[ok |-> TRUE, err |-> 0]} \cup {[ok |-> FALSE, err |-> c] : c \in ConvErrors}

\* LoadLibraryW(path): the handle returned, or NULL and an error code
LoadLibraryW(path) ==
    (IF path = LibPath /\ refs[Lib] < MaxRef
     THEN {[handle |-> Lib, err |-> 0]} ELSE {})
    \cup {[handle |-> NULL, err |-> c] : c \in LoadErrors}

\* FreeLibrary(h): nonzero (ok) when h is a loaded module
FreeLibrary(h) ==
    IF refs[h] > 0
    THEN {[ok |-> TRUE, err |-> 0]}
    ELSE {[ok |-> FALSE, err |-> c] : c \in FreeErrors}

\* GetProcAddress(h, ordinal or name)
GetProcAddress(h, lk) ==
    IF /\ refs[h] > 0
       /\ \/ lk.kind = "ordinal" /\ lk.ordinal \in ExportOrdinals(h)
          \/ lk.kind = "name" /\ lk.name \in ExportNames(h)
    THEN "address" ELSE NULL

(* -------------------------------- dlopen ------------------------------ *)

dlopen(t, file) ==
    /\ Call(t, "open", [h |-> file, name |-> <<>>])
    /\ entryMode' = [entryMode EXCEPT ![t] = processErrorMode]
    /\ UNCHANGED <<lastError, errorMessage, processErrorMode, refs, errorMode,
                   handle, seen, mode0, writer, quiet>>

\* lines 104-112: the NULL file, and the conversion of the file name
dlopen_convert(t) ==
    /\ pc[t] = "open"
    /\ IF arg[t].h = NULL
       THEN /\ Return(t, PtrRet("dlopen", MainImage))
            /\ entryMode' = [entryMode EXCEPT ![t] = 0]
            /\ UNCHANGED <<lastError, writer, quiet>>
       ELSE \E o \in UTF8toWCHAR(arg[t].h) :
              IF o.ok
              THEN /\ pc' = [pc EXCEPT ![t] = "getmode"]
                   /\ UNCHANGED <<arg, ret, entryMode, lastError, writer, quiet>>
              ELSE /\ RecordError(t, o.err)
                   /\ Return(t, PtrRet("dlopen", NULL))
                   /\ entryMode' = [entryMode EXCEPT ![t] = 0]
    /\ UNCHANGED <<errorMessage, processErrorMode, refs, errorMode, handle,
                   seen, lookup, mode0>>

\* line 114
dlopen_getmode(t) ==
    /\ pc[t] = "getmode"
    /\ errorMode' = [errorMode EXCEPT ![t] = processErrorMode]
    /\ pc' = [pc EXCEPT ![t] = "setmode"]
    /\ UNCHANGED <<lastError, errorMessage, processErrorMode, refs, arg, handle,
                   seen, ret, lookup, entryMode, mode0, writer, quiet>>

\* line 117
dlopen_setmode(t) ==
    /\ pc[t] = "setmode"
    /\ processErrorMode' = BitOr(errorMode[t], SEM_FAILCRITICALERRORS)
    /\ pc' = [pc EXCEPT ![t] = "load"]
    /\ UNCHANGED <<lastError, errorMessage, refs, arg, errorMode, handle, seen,
                   ret, lookup, entryMode, mode0, writer, quiet>>

\* lines 119-122
dlopen_load(t) ==
    /\ pc[t] = "load"
    /\ \E o \in LoadLibraryW(arg[t].h) :
         /\ handle' = [handle EXCEPT ![t] = o.handle]
         /\ IF o.handle = NULL
            THEN RecordError(t, o.err) /\ UNCHANGED refs
            ELSE /\ refs' = [refs EXCEPT ![o.handle] = @ + 1]
                 /\ UNCHANGED <<lastError, writer, quiet>>
    /\ pc' = [pc EXCEPT ![t] = "restore"]
    /\ UNCHANGED <<errorMessage, processErrorMode, arg, errorMode, seen, ret,
                   lookup, entryMode, mode0>>

\* dlopen that returns without the second SetErrorMode
dlopen_norestore(t) ==
    /\ pc[t] = "restore"
    /\ Return(t, PtrRet("dlopen", handle[t]))
    /\ handle' = [handle EXCEPT ![t] = NULL]
    /\ errorMode' = [errorMode EXCEPT ![t] = 0]
    /\ entryMode' = [entryMode EXCEPT ![t] = 0]
    /\ UNCHANGED <<lastError, errorMessage, processErrorMode, refs, seen, lookup,
                   mode0, writer, quiet>>

\* lines 124-128
dlopen_restore(t) ==
    /\ pc[t] = "restore"
    /\ processErrorMode' = errorMode[t]
    /\ Return(t, PtrRet("dlopen", handle[t]))
    /\ handle' = [handle EXCEPT ![t] = NULL]
    /\ errorMode' = [errorMode EXCEPT ![t] = 0]
    /\ entryMode' = [entryMode EXCEPT ![t] = 0]
    /\ UNCHANGED <<lastError, errorMessage, refs, seen, lookup, mode0, writer,
                   quiet>>

(* -------------------------------- dlclose ----------------------------- *)

dlclose(t, h) ==
    /\ Call(t, "close", [h |-> h, name |-> <<>>])
    /\ UNCHANGED <<lastError, errorMessage, processErrorMode, refs, errorMode,
                   handle, seen, entryMode, mode0, writer, quiet>>

\* dlclose without the comparison with GetModuleHandle(NULL)
dlclose_body_nomaincheck(t) ==
    /\ pc[t] = "close"
    /\ \E o \in FreeLibrary(arg[t].h) :
         IF o.ok
         THEN /\ refs' = [refs EXCEPT ![arg[t].h] = @ - 1]
              /\ Return(t, RcRet(arg[t].h, 0))
              /\ UNCHANGED <<lastError, writer, quiet>>
         ELSE /\ RecordError(t, o.err)
              /\ Return(t, RcRet(arg[t].h, 1))
              /\ UNCHANGED refs
    /\ UNCHANGED <<errorMessage, processErrorMode, errorMode, handle, seen,
                   lookup, entryMode, mode0>>

\* lines 140-148
dlclose_body(t) ==
    /\ pc[t] = "close"
    /\ IF arg[t].h # MainImage
       THEN \E o \in FreeLibrary(arg[t].h) :
              IF o.ok
              THEN /\ refs' = [refs EXCEPT ![arg[t].h] = @ - 1]
                   /\ Return(t, RcRet(arg[t].h, 0))
                   /\ UNCHANGED <<lastError, writer, quiet>>
              ELSE /\ RecordError(t, o.err)
                   /\ Return(t, RcRet(arg[t].h, 1))
                   /\ UNCHANGED refs
       ELSE /\ Return(t, RcRet(arg[t].h, 0))
            /\ UNCHANGED <<refs, lastError, writer, quiet>>
    /\ UNCHANGED <<errorMessage, processErrorMode, errorMode, handle, seen,
                   lookup, entryMode, mode0>>

(* --------------------------------- dlsym ------------------------------ *)

dlsym(t, h, name) ==
    /\ Call(t, "sym", [h |-> h, name |-> name])
    /\ UNCHANGED <<lastError, errorMessage, processErrorMode, refs, errorMode,
                   handle, seen, entryMode, mode0, writer, quiet>>

\* lines 164-168: the GetProcAddress call dlsym makes for name
Dispatch(name) ==
    LET p == str_to_uint16(name)
    IN  IF p.ok
        THEN [sym |-> name, kind |-> "ordinal", ordinal |-> p.res, name |-> <<>>]
        ELSE [sym |-> name, kind |-> "name", ordinal |-> 0, name |-> name]

\* dlsym that clears lastError when the lookup succeeds
dlsym_body_clears(t) ==
    /\ pc[t] = "sym"
    /\ LET lk == Dispatch(arg[t].name)
           address == GetProcAddress(arg[t].h, lk)
       IN  /\ lookup' = [lookup EXCEPT ![t] = lk]
           /\ IF address = NULL
              THEN \E c \in ProcErrors : RecordError(t, c)
              ELSE lastError' = 0 /\ UNCHANGED <<writer, quiet>>
           /\ Return(t, PtrRet("dlsym", address))
    /\ UNCHANGED <<errorMessage, processErrorMode, refs, errorMode, handle, seen,
                   entryMode, mode0>>

\* lines 164-173
dlsym_body(t) ==
    /\ pc[t] = "sym"
    /\ LET lk == Dispatch(arg[t].name)
           address == GetProcAddress(arg[t].h, lk)
       IN  /\ lookup' = [lookup EXCEPT ![t] = lk]
           /\ IF address = NULL
              THEN \E c \in ProcErrors : RecordError(t, c)
              ELSE UNCHANGED <<lastError, writer, quiet>>
           /\ Return(t, PtrRet("dlsym", address))
    /\ UNCHANGED <<errorMessage, processErrorMode, refs, errorMode, handle, seen,
                   entryMode, mode0>>

(* -------------------------------- dlerror ----------------------------- *)

dlerror(t) ==
    /\ Call(t, "error", NoArg)
    /\ UNCHANGED <<lastError, errorMessage, processErrorMode, refs, errorMode,
                   handle, seen, entryMode, mode0, writer, quiet>>

\* line 185: the test of lastError
dlerror_test(t) ==
    /\ pc[t] = "error"
    /\ IF lastError # 0
       THEN /\ seen' = [seen EXCEPT ![t] = lastError]
            /\ quiet' = [quiet EXCEPT ![t] = TRUE]
            /\ pc' = [pc EXCEPT ![t] = "format"]
            /\ UNCHANGED <<arg, ret>>
       ELSE /\ Return(t, PtrRet("dlerror", NULL))
            /\ UNCHANGED <<seen, quiet>>
    /\ UNCHANGED <<lastError, errorMessage, processErrorMode, refs, errorMode,
                   handle, lookup, entryMode, mode0, writer>>

\* line 186: sprintf reads lastError again, or the build keeps the value
\* the test read in a register
dlerror_format(t) ==
    /\ pc[t] = "format"
    /\ \E v \in {seen[t], lastError} : errorMessage' = Sprintf(v)
    /\ quiet' = Disturb(t)
    /\ pc' = [pc EXCEPT ![t] = "reset"]
    /\ UNCHANGED <<lastError, processErrorMode, refs, arg, errorMode, handle,
                   seen, ret, lookup, entryMode, mode0, writer>>

\* dlerror that returns the message and leaves lastError set
dlerror_noreset(t) ==
    /\ pc[t] = "reset"
    /\ quiet' = [quiet EXCEPT ![t] = TRUE]
    /\ seen' = [seen EXCEPT ![t] = 0]
    /\ Return(t, PtrRet("dlerror", "errorMessage"))
    /\ UNCHANGED <<lastError, writer, errorMessage, processErrorMode, refs,
                   errorMode, handle, lookup, entryMode, mode0>>

\* lines 187-188
dlerror_reset(t) ==
    /\ pc[t] = "reset"
    /\ lastError' = 0
    /\ writer' = NoWriter
    /\ quiet' = [Disturb(t) EXCEPT ![t] = TRUE]
    /\ seen' = [seen EXCEPT ![t] = 0]
    /\ Return(t, PtrRet("dlerror", "errorMessage"))
    /\ UNCHANGED <<errorMessage, processErrorMode, refs, errorMode, handle,
                   lookup, entryMode, mode0>>

(* ---------------------------- specifications -------------------------- *)

Step(t, F, S) ==
    \/ \E file \in F : dlopen(t, file)
    \/ dlopen_convert(t)
    \/ dlopen_getmode(t)
    \/ dlopen_setmode(t)
    \/ dlopen_load(t)
    \/ dlopen_restore(t)
    \/ \E h \in Handles : dlclose(t, h)
    \/ dlclose_body(t)
    \/ \E h \in Handles, name \in S : dlsym(t, h, name)
    \/ dlsym_body(t)
    \/ dlerror(t)
    \/ dlerror_test(t)
    \/ dlerror_format(t)
    \/ dlerror_reset(t)

\* any number of threads inside the shim
Next == \E t \in Threads : Step(t, Files, ThreadSyms)

Spec == Init /\ [][Next]_vars

\* a single caller
Caller == "t1"

NextSingle == Step(Caller, Files, SymNames)

SpecSingle == Init /\ [][NextSingle]_vars

\* symbol resolution by a single caller: the caller has called dlsym with any
\* handle and any string of SymStrings
InitSym ==
    /\ lastError = 0
    /\ errorMessage = <<>>
    /\ processErrorMode \in InitModes
    /\ mode0 = processErrorMode
    /\ refs \in {[h \in Handles |-> IF h = MainImage THEN 1 ELSE n] : n \in 0..MaxRef}
    /\ pc = [t \in Threads |-> IF t = Caller THEN "sym" ELSE "idle"]
    /\ \E h \in Handles, name \in SymStrings :
          arg = [t \in Threads |->
                    IF t = Caller THEN [h |-> h, name |-> name] ELSE NoArg]
    /\ errorMode = [t \in Threads |-> 0]
    /\ handle = [t \in Threads |-> NULL]
    /\ seen = [t \in Threads |-> 0]
    /\ ret = [t \in Threads |-> NoRet]
    /\ lookup = [t \in Threads |-> NoLookup]
    /\ entryMode = [t \in Threads |-> 0]
    /\ writer = NoWriter
    /\ quiet = [t \in Threads |-> TRUE]

NextSym ==
    \/ dlsym_body(Caller)
    \/ dlerror(Caller)
    \/ dlerror_test(Caller)
    \/ dlerror_format(Caller)
    \/ dlerror_reset(Caller)

SpecSym == InitSym /\ [][NextSym]_vars

(* ------------------------------ properties --------------------------- *)

\* the value of a string of decimal digits, counted up to UINT16_MAX + 1
RECURSIVE DigitsValue(_, _)
DigitsValue(s, acc) ==
    IF s = <<>> THEN acc
    ELSE IF 10 * acc + DigitVal(Head(s)) > UINT16_MAX THEN UINT16_MAX + 1
    ELSE DigitsValue(Tail(s), 10 * acc + DigitVal(Head(s)))

\* s is a non-empty run of decimal digits denoting a value in [0, 65535]
StrictOrdinal(s) ==
    /\ Len(s) > 0
    /\ \A i \in 1..Len(s) : IsDigit(s[i])
    /\ DigitsValue(s, 0) <= UINT16_MAX

Looked(t) == lookup[t].kind # "none"

\* thread t takes the step
Moves(t) == pc'[t] # pc[t]

DlopenPcs == {"open", "getmode", "setmode", "load", "restore"}

HasFlag(m, f) == (m \div f) % 2 = 1

\* the message is "Win32 error " followed by the decimal digits of code
IsMessageFor(msg, code) ==
    /\ Len(msg) > Len(Prefix)
    /\ SubSeq(msg, 1, Len(Prefix)) = Prefix
    /\ LET tail == SubSeq(msg, Len(Prefix) + 1, Len(msg))
       IN  /\ \A i \in 1..Len(tail) : IsDigit(tail[i])
           /\ tail[1] # "0" \/ Len(tail) = 1
           /\ DigitsValue(tail, 0) = code

\* C1: every string passed to dlsym that is not strictly a run of decimal
\* digits denoting a value in [0, 65535] is looked up by name, never by
\* ordinal.
C1_NonStrictIsName ==
    \A t \in Threads :
        (Looked(t) /\ ~StrictOrdinal(lookup[t].sym)) => lookup[t].kind = "name"

\* C2: every string of decimal digits whose value is in [0, 65535] is
\* looked up by ordinal, with exactly that value, and never by name.
C2_DigitsAreOrdinal ==
    \A t \in Threads :
        (Looked(t) /\ StrictOrdinal(lookup[t].sym)) =>
            /\ lookup[t].kind = "ordinal"
            /\ lookup[t].ordinal = DigitsValue(lookup[t].sym, 0)

\* dlsym("65535") has looked up ordinal 65535
C2_Witness ==
    /\ lookup[Caller].sym = <<"6","5","5","3","5">>
    /\ lookup[Caller].kind = "ordinal"
    /\ lookup[Caller].ordinal = UINT16_MAX
    /\ ret[Caller].op = "dlsym"

\* C3: a failing dlopen (conversion or load), dlclose or dlsym returns its
\* sentinel and leaves the Win32 error code of the failed call in
\* lastError; a dlerror call that tests a nonzero lastError and is not
\* disturbed by another thread returns errorMessage holding "Win32 error "
\* and that code in decimal.
C3_FailureRecorded ==
    [][\A t \in Threads : Moves(t) =>
        /\ (pc[t] = "open" /\ pc'[t] = "idle" /\ arg[t].h # NULL) =>
               /\ ret'[t] = PtrRet("dlopen", NULL)
               /\ lastError' \in ConvErrors /\ lastError' # 0
        /\ (pc[t] = "load" /\ arg[t].h = MissingPath) => handle'[t] = NULL
        /\ (pc[t] = "load" /\ handle'[t] = NULL) =>
               lastError' \in LoadErrors /\ lastError' # 0
        /\ pc[t] = "restore" => ret'[t] = PtrRet("dlopen", handle[t])
        /\ (pc[t] = "close" /\ arg[t].h # MainImage /\ refs[arg[t].h] = 0) =>
               ret'[t].rc # 0
        /\ (pc[t] = "close" /\ ret'[t].rc # 0) =>
               lastError' \in FreeErrors /\ lastError' # 0
        /\ (pc[t] = "sym" /\ refs[arg[t].h] = 0) => ret'[t].ptr = NULL
        /\ (pc[t] = "sym" /\ ret'[t].ptr = NULL) =>
               lastError' \in ProcErrors /\ lastError' # 0
        /\ (pc[t] = "error" /\ lastError # 0) =>
               pc'[t] = "format" /\ seen'[t] = lastError
        /\ (pc[t] = "reset" /\ quiet[t]) =>
               /\ ret'[t] = PtrRet("dlerror", "errorMessage")
               /\ IsMessageFor(errorMessage', seen[t])
      ]_vars

\* a dlopen of the missing file has failed and dlerror has returned
\* "Win32 error 126"
C3_Witness ==
    \E t \in Threads :
        /\ ret[t] = PtrRet("dlerror", "errorMessage")
        /\ errorMessage = Prefix \o <<"1", "2", "6">>
        /\ lastError = 0

\* C4: a dlerror call that finds lastError zero returns NULL and leaves it
\* zero; one that finds it nonzero returns errorMessage and leaves it zero;
\* lastError then stays zero until an operation fails.
C4_ErrorConsumed ==
    [][/\ \A t \in Threads : Moves(t) =>
            /\ (pc[t] = "error" /\ lastError = 0) =>
                   /\ pc'[t] = "idle"
                   /\ ret'[t] = PtrRet("dlerror", NULL)
                   /\ lastError' = 0
            /\ (pc[t] = "error" /\ lastError # 0) => pc'[t] = "format"
            /\ pc[t] = "format" => pc'[t] = "reset"
            /\ pc[t] = "reset" =>
                   /\ pc'[t] = "idle"
                   /\ ret'[t] = PtrRet("dlerror", "errorMessage")
                   /\ lastError' = 0
       /\ (lastError = 0 /\ lastError' # 0) =>
            \E t \in Threads :
                /\ Moves(t)
                /\ pc[t] \in {"open", "load", "close", "sym"}
                /\ writer'.t = t
      ]_vars

\* one failure, a dlerror that returned the message, and a second dlerror
\* by the same thread that returned NULL
C4_Witness ==
    \E t \in Threads :
        /\ ret[t] = PtrRet("dlerror", NULL)
        /\ errorMessage # <<>>
        /\ lastError = 0
        /\ \A u \in Threads \ {t} : pc[u] = "idle" /\ ret[u] = NoRet

\* C5: for a single caller, when dlopen returns the process error mode is
\* the one in effect when dlopen was called, on every exit path.
C5_ModeRestored ==
    [][(pc[Caller] \in DlopenPcs /\ pc'[Caller] = "idle") =>
           processErrorMode' = entryMode[Caller]]_vars

\* a dlopen whose load failed has returned
C5_Witness ==
    /\ ret[Caller] = PtrRet("dlopen", NULL)
    /\ lastError \in LoadErrors
    /\ processErrorMode = mode0

\* C6: whenever LoadLibraryW is called, SEM_FAILCRITICALERRORS is set in the
\* process error mode, also with other threads inside dlopen.
C6_SuppressedAtLoad ==
    [][\A t \in Threads : (pc[t] = "load" /\ Moves(t)) =>
           HasFlag(processErrorMode, SEM_FAILCRITICALERRORS)]_vars

\* C7: dlopen(NULL) returns the main image's handle and writes neither
\* lastError nor the process error mode; dlclose of that handle returns 0,
\* calls no FreeLibrary and does not write lastError; the main image stays
\* loaded.
C7_MainImage ==
    /\ [](refs[MainImage] = 1)
    /\ [][\A t \in Threads : Moves(t) =>
            /\ (pc[t] = "open" /\ arg[t].h = NULL) =>
                   /\ ret'[t] = PtrRet("dlopen", MainImage)
                   /\ lastError' = lastError
                   /\ processErrorMode' = processErrorMode
                   /\ refs' = refs
            /\ (pc[t] = "close" /\ arg[t].h = MainImage) =>
                   /\ ret'[t] = RcRet(MainImage, 0)
                   /\ lastError' = lastError
                   /\ refs' = refs
            /\ (pc[t] = "sym" /\ arg[t].h = MainImage /\ arg[t].name = <<"7">>) =>
                   ret'[t] = PtrRet("dlsym", "address")
         ]_vars

\* both threads have closed the main image's handle, and it is still loaded
C7_Witness ==
    /\ \A t \in Threads : ret[t] = RcRet(MainImage, 0)
    /\ refs[MainImage] = 1

\* C8: lastError changes only when an operation fails or dlerror resets it;
\* an operation that succeeds leaves it as it was; it is nonzero only if an
\* operation has failed since dlerror last reset it.
C8_WrittenOnFailure ==
    /\ [](lastError # 0 => writer.t # "none")
    /\ [][/\ lastError' # lastError =>
               \E t \in Threads :
                   /\ Moves(t)
                   /\ \/ pc[t] = "reset" /\ lastError' = 0
                      \/ /\ pc[t] = "open"
                         /\ ret'[t] = PtrRet("dlopen", NULL)
                      \/ pc[t] = "load" /\ handle'[t] = NULL
                      \/ pc[t] = "close" /\ ret'[t].rc # 0
                      \/ pc[t] = "sym" /\ ret'[t].ptr = NULL
          /\ \A t \in Threads : Moves(t) =>
               /\ (pc[t] = "open" /\ ret'[t].ptr # NULL) => lastError' = lastError
               /\ (pc[t] = "load" /\ handle'[t] # NULL) => lastError' = lastError
               /\ pc[t] \in {"getmode", "setmode", "restore"} =>
                      lastError' = lastError
               /\ (pc[t] = "close" /\ ret'[t].rc = 0) => lastError' = lastError
               /\ (pc[t] = "sym" /\ ret'[t].ptr # NULL) => lastError' = lastError
         ]_vars

\* a thread's dlclose failed, its later dlsym succeeded, and the error of
\* the dlclose is still pending
C8_Witness ==
    \E t \in Threads :
        /\ ret[t] = PtrRet("dlsym", "address")
        /\ writer.t = t
        /\ lastError \in FreeErrors

\* C9: once no thread is inside dlopen, the process error mode is the one
\* before the calls began.
C9_ModeTemporary ==
    (\A t \in Threads : pc[t] \notin DlopenPcs) => processErrorMode = mode0

\* C10: lastError holds the code of the failing operation that wrote it
\* last; a dlerror call not disturbed by another thread returns that code
\* and leaves lastError zero.
C10_LastWriteWins ==
    /\ [](lastError # 0 => lastError = writer.code)
    /\ [][\A t \in Threads : (Moves(t) /\ pc[t] = "reset" /\ quiet[t]) =>
            /\ IsMessageFor(errorMessage', writer.code)
            /\ lastError' = 0
         ]_vars

\* t2's failure has overwritten a pending error, and t1's dlerror is about
\* to return t2's code
C10_Witness ==
    /\ pc["t1"] = "reset"
    /\ quiet["t1"]
    /\ writer.t = "t2"
    /\ writer.over
    /\ IsMessageFor(errorMessage, writer.code)

====
